---- MODULE Spec2Model ----
(***************************************************************************)
(* Model of parser.py: the command-line program (main, process_header,     *)
(* clang_parse, print_diagnostics) and the declaration extractor           *)
(* (extract_defs).                                                         *)
(*                                                                         *)
(* Text is modelled as a sequence of one-character strings, so that        *)
(* startswith, rstrip, strip, join and the f-string concatenations are     *)
(* computed character by character as Python computes them.  A path is a   *)
(* sequence of components, "/" as first component marking an absolute one. *)
(* An optional value (location.file, enum_value, args.out) is a record     *)
(* with a `some' flag.                                                     *)
(***************************************************************************)
EXTENDS Integers, Sequences, FiniteSets, TLC

\* ------------------------------------------------------------------ bounds

\* most top-level children of the translation unit in a mixed tree
MaxNodes == 2
\* most parameters of a function
MaxParams == 2
\* most children of a struct or enum node
MaxChildren == 2
\* most tokens of a macro after its name
MaxTokens == 2

\* ------------------------------------------------------------ text helpers

\* the literal 'none' of `x or 'none''
none == <<"n", "o", "n", "e">>

\* Python str.startswith
StartsWith(s, p) == Len(s) >= Len(p) /\ SubSeq(s, 1, Len(p)) = p

\* Python `x or 'none'': the empty string is falsy
OrNone(s) == IF s = <<>> THEN none ELSE s

\* Python str.rstrip(chars): drops every trailing character that is in chars
RECURSIVE RStrip(_, _)
RStrip(s, chars) ==
    IF s # <<>> /\ s[Len(s)] \in chars
    THEN RStrip(SubSeq(s, 1, Len(s) - 1), chars)
    ELSE s

\* Python str.lstrip(chars)
RECURSIVE LStrip(_, _)
LStrip(s, chars) ==
    IF s # <<>> /\ s[1] \in chars THEN LStrip(Tail(s), chars) ELSE s

\* the characters str.strip() with no argument removes
Whitespace == {" ", "\n", "\t", "\r"}

\* Python str.strip()
Strip(s) == LStrip(RStrip(s, Whitespace), Whitespace)

\* Python sep.join(list)
RECURSIVE Join(_, _)
Join(sep, list) ==
    IF list = <<>> THEN <<>>
    ELSE IF Len(list) = 1 THEN list[1]
    ELSE list[1] \o sep \o Join(sep, Tail(list))

\* one decimal digit as text
Digit(d) == <<"0", "1", "2", "3", "4", "5", "6", "7", "8", "9">>[d + 1]

\* Python str(int) of a non-negative integer
RECURSIVE NatStr(_)
NatStr(n) == IF n < 10 THEN <<Digit(n)>> ELSE NatStr(n \div 10) \o <<Digit(n % 10)>>

\* Python str(int), as the f-string `{enum_value_const}' renders it
IntStr(n) == IF n < 0 THEN <<"-">> \o NatStr(-n) ELSE NatStr(n)

\* all sequences over S of length at most n
RECURSIVE SeqsUpTo(_, _)
SeqsUpTo(S, n) ==
    IF n = 0 THEN {<<>>}
    ELSE LET shorter == SeqsUpTo(S, n - 1)
         IN  shorter \cup {Append(q, x) : q \in {r \in shorter : Len(r) = n - 1}, x \in S}

\* ------------------------------------------------------------------- paths

\* the working directory of the process, which os.path.abspath joins onto
Cwd == <<"/", "inc">>

\* os.path.normpath on the components of an absolute path: `.' is dropped,
\* `..' removes the component before it (never the root)
RECURSIVE NormInto(_, _)
NormInto(done, rest) ==
    IF rest = <<>> THEN done
    ELSE IF rest[1] = "." THEN NormInto(done, Tail(rest))
    ELSE IF rest[1] = ".." THEN
        NormInto(IF Len(done) > 1 THEN SubSeq(done, 1, Len(done) - 1) ELSE done,
                 Tail(rest))
    ELSE NormInto(Append(done, rest[1]), Tail(rest))

\* os.path.abspath: normpath(join(getcwd(), p))
abspath(p) ==
    IF p # <<>> /\ p[1] = "/" THEN NormInto(<<"/">>, Tail(p))
    ELSE NormInto(<<"/">>, Tail(Cwd) \o p)

\* ------------------------------------------------- the per-kind formatters

\* OtherOrigin without the test for an absent file
OtherOriginNoneDiffers(node, header_path) ==
    abspath(node.file.name) # abspath(header_path)

\* location.file present and its abspath differs from the header's: the
\* node is skipped (`continue')
OtherOrigin(node, header_path) ==
    node.file.some /\ abspath(node.file.name) # abspath(header_path)

\* typedef_type without the fallback
typedef_type_raw(node) == node.type

\* typedef_type = node.underlying_typedef_type.spelling or 'none'
typedef_type(node) == OrNone(node.type)

\* the guard of the typedef branch
TypedefEmits(node) ==
    /\ ~StartsWith(node.spelling, <<"_">>)
    /\ ~StartsWith(typedef_type(node), <<"s", "t", "r", "u", "c", "t", " ">>)

\* f'typedef {typedef_type} {typedef_name};'
TypedefText(node) ==
    <<"t", "y", "p", "e", "d", "e", "f", " ">> \o typedef_type(node)
        \o <<" ">> \o node.spelling \o <<";">>

\* NameEmits comparing the whole name with `_'
NameEmitsExact(node) == node.spelling # <<"_">>

\* NameEmits rejecting the empty name as well
NameEmitsNonEmpty(node) ==
    node.spelling # <<>> /\ ~StartsWith(node.spelling, <<"_">>)

\* the guard `not <name>.startswith('_')' of the function, struct, enum and
\* macro branches
NameEmits(node) == ~StartsWith(node.spelling, <<"_">>)

\* ParamList without the fallback for a parameter's name
RECURSIVE ParamListRawNames(_)
ParamListRawNames(arguments) ==
    IF arguments = <<>> THEN <<>>
    ELSE <<OrNone(arguments[1].type) \o <<" ">> \o arguments[1].spelling>>
            \o ParamListRawNames(Tail(arguments))

\* params, built by the loop over node.get_arguments()
RECURSIVE ParamList(_)
ParamList(arguments) ==
    IF arguments = <<>> THEN <<>>
    ELSE LET param == arguments[1]
             param_type == OrNone(param.type)
             param_name == OrNone(param.spelling)
         IN  <<param_type \o <<" ">> \o param_name>> \o ParamList(Tail(arguments))

\* f'{ret_type} {func_name}({', '.join(params)});'
FunctionText(node) ==
    LET ret_type == OrNone(node.type)
    IN  ret_type \o <<" ">> \o node.spelling \o <<"(">>
            \o Join(<<",", " ">>, ParamList(node.args)) \o <<")", ";">>

\* StructFields passing over the fields whose name starts with `_'
RECURSIVE StructFieldsPublic(_)
StructFieldsPublic(children) ==
    IF children = <<>> THEN <<>>
    ELSE (IF children[1].kind = "FIELD_DECL" /\ ~StartsWith(children[1].spelling, <<"_">>)
          THEN <<" ", " ", " ", " ">> \o OrNone(children[1].type) \o <<" ">>
                   \o OrNone(children[1].spelling) \o <<";", "\n">>
          ELSE <<>>)
         \o StructFieldsPublic(Tail(children))

\* the loop over the struct's children: one line per FIELD_DECL child
RECURSIVE StructFields(_)
StructFields(children) ==
    IF children = <<>> THEN <<>>
    ELSE LET struct_field == children[1]
             field_type == OrNone(struct_field.type)
             field_name == OrNone(struct_field.spelling)
         IN  (IF struct_field.kind = "FIELD_DECL"
              THEN <<" ", " ", " ", " ">> \o field_type \o <<" ">> \o field_name
                       \o <<";", "\n">>
              ELSE <<>>)
             \o StructFields(Tail(children))

\* struct_def: the opening line, the field lines, '};'
StructText(node) ==
    <<"s", "t", "r", "u", "c", "t", " ">> \o node.spelling \o <<" ", "{", "\n">>
        \o StructFields(node.children) \o <<"}", ";">>

\* the loop over the enum's children: one line per ENUM_CONSTANT_DECL child
RECURSIVE EnumValues(_)
EnumValues(children) ==
    IF children = <<>> THEN <<>>
    ELSE LET enum_value == children[1]
             enum_value_name == enum_value.spelling
             enum_value_const == enum_value.enum_value
         IN  (IF enum_value.kind = "ENUM_CONSTANT_DECL"
              THEN IF enum_value_const.some
                   THEN <<" ", " ", " ", " ">> \o enum_value_name \o <<" ", "=", " ">>
                            \o IntStr(enum_value_const.v) \o <<",", "\n">>
                   ELSE <<" ", " ", " ", " ">> \o enum_value_name \o <<",", "\n">>
              ELSE <<>>)
             \o EnumValues(Tail(children))

\* EnumTrim dropping one trailing character only
EnumTrimOnce(enum_def) ==
    SubSeq(enum_def, 1, Len(enum_def) - 1) \o <<"\n", "}", ";">>

\* enum_def.rstrip(',\n') + '\n};'
EnumTrim(enum_def) == RStrip(enum_def, {",", "\n"}) \o <<"\n", "}", ";">>

\* enum_def: the opening line, the constant lines, trimmed and closed
EnumText(node) ==
    EnumTrim(node.spelling \o <<" ", "{", "\n">> \o EnumValues(node.children))

\* macro_value = ' '.join(tokens[1:]) if len(tokens) > 1 else ''
macro_value(tokens) ==
    IF Len(tokens) > 1 THEN Join(<<" ">>, Tail(tokens)) ELSE <<>>

\* MacroText without the strip
MacroTextNoStrip(node) ==
    <<"#", "d", "e", "f", "i", "n", "e", " ">> \o node.spelling \o <<" ">>
        \o macro_value(node.tokens)

\* f'#define {macro_name} {macro_value}'.strip()
MacroText(node) ==
    Strip(<<"#", "d", "e", "f", "i", "n", "e", " ">> \o node.spelling \o <<" ">>
              \o macro_value(node.tokens))

\* ------------------------------------------------------------ input domains

\* location.file is None
NoFile == [some |-> FALSE, name |-> <<>>]

\* location.file with the given name
File(p) == [some |-> TRUE, name |-> p]

\* a cursor of the parsed tree, with the attributes extract_defs reads:
\* type is underlying_typedef_type.spelling, result_type.spelling or
\* type.spelling according to the kind
Node(kind, spelling, file, type, args, children, tokens) ==
    [kind |-> kind, spelling |-> spelling, file |-> file, type |-> type,
     args |-> args, children |-> children, tokens |-> tokens]

\* a parameter, field or enum constant cursor
Child(kind, spelling, type, enum_value) ==
    [kind |-> kind, spelling |-> spelling, type |-> type, enum_value |-> enum_value,
     file |-> File(<<"/", "usr", "b.h">>)]

NoValue == [some |-> FALSE, v |-> 0]
Value(n) == [some |-> TRUE, v |-> n]

int == <<"i", "n", "t">>

\* the header paths given on the command line; both name /inc/a.h
HeaderPaths == {<<"a.h">>, <<"/", "inc", "..", "inc", "a.h">>}

\* originating files: absent, the header under two spellings, another file
Origins == {NoFile, File(<<".", "a.h">>), File(<<"/", "inc", "a.h">>),
            File(<<"/", "usr", "b.h">>)}

\* declared names: empty, public, private, public with an inner underscore
Names == {<<>>, <<"a">>, <<"_", "a">>, <<"a", "_">>}

\* type spellings: empty, a plain type, a struct type, a type whose
\* spelling only begins with the letters of `struct'
Types == {<<>>, int, <<"s", "t", "r", "u", "c", "t", " ", "S">>,
          <<"s", "t", "r", "u", "c", "t", "_", "t">>}

TypedefNodes ==
    {Node("TYPEDEF_DECL", n, f, t, <<>>, <<>>, <<>>) :
        n \in Names, f \in Origins, t \in Types}

Params ==
    {Child("PARM_DECL", n, t, NoValue) : n \in {<<>>, <<"x">>}, t \in {<<>>, int}}

FunctionNodes ==
    {Node("FUNCTION_DECL", n, f, t, a, <<>>, <<>>) :
        n \in {<<>>, <<"f">>, <<"_", "f">>},
        f \in {NoFile, File(<<"/", "usr", "b.h">>)},
        t \in {<<>>, int},
        a \in SeqsUpTo(Params, MaxParams)}

\* children of a struct: fields (one private, one unnamed, one untyped) and
\* a nested declaration that is no field
StructChildren ==
    {Child("FIELD_DECL", <<"x">>, int, NoValue),
     Child("FIELD_DECL", <<"_", "y">>, int, NoValue),
     Child("FIELD_DECL", <<>>, <<>>, NoValue),
     Child("UNION_DECL", <<"u">>, <<>>, NoValue)}

StructNodes ==
    {Node("STRUCT_DECL", n, f, <<>>, <<>>, c, <<>>) :
        n \in {<<>>, <<"S">>, <<"_", "S">>},
        f \in {NoFile, File(<<"/", "usr", "b.h">>)},
        c \in SeqsUpTo(StructChildren, MaxChildren)}

\* children of an enum: constants with and without a value, and a child
\* that is no constant
EnumChildren ==
    {Child("ENUM_CONSTANT_DECL", <<"A">>, <<>>, Value(5)),
     Child("ENUM_CONSTANT_DECL", <<"_", "B">>, <<>>, NoValue),
     Child("ENUM_CONSTANT_DECL", <<"C">>, <<>>, Value(-10)),
     Child("UNEXPOSED_ATTR", <<"d">>, <<>>, NoValue)}

EnumNodes ==
    {Node("ENUM_DECL", n, f, <<>>, <<>>, c, <<>>) :
        n \in {<<>>, <<"E">>, <<"_", "E">>},
        f \in {NoFile, File(<<"/", "usr", "b.h">>)},
        c \in SeqsUpTo(EnumChildren, MaxChildren)}

\* token spellings after the macro's name
TokenSpellings == {<<"1">>, <<"(">>, <<"x", "y">>}

\* a macro definition's tokens start with its name (the cursor's extent starts
\* at the name); a built-in macro has no tokens
MacroNodes ==
    {Node("MACRO_DEFINITION", n, f, <<>>, <<>>, <<>>, <<n>> \o rest) :
        n \in {<<"M">>, <<"_", "M">>},
        f \in {NoFile, File(<<"/", "usr", "b.h">>)},
        rest \in SeqsUpTo(TokenSpellings, MaxTokens)}
    \cup {Node("MACRO_DEFINITION", n, NoFile, <<>>, <<>>, <<>>, <<>>) :
        n \in {<<"M">>, <<"_", "M">>}}

\* every node a one-child translation unit is drawn from
AllNodes == TypedefNodes \cup FunctionNodes \cup StructNodes \cup EnumNodes \cup MacroNodes

Here == File(<<"a.h">>)

\* the nodes the longer translation units are drawn from: two emitting nodes
\* of each kind, nodes each filter rejects, a kind that is ignored
CoreNodes ==
    {Node("TYPEDEF_DECL", <<"a">>, Here, int, <<>>, <<>>, <<>>),
     Node("TYPEDEF_DECL", <<"b">>, NoFile, <<>>, <<>>, <<>>, <<>>),
     Node("TYPEDEF_DECL", <<"c">>, File(<<"/", "usr", "b.h">>), int, <<>>, <<>>, <<>>),
     Node("FUNCTION_DECL", <<"f">>, Here, int, <<>>, <<>>, <<>>),
     Node("FUNCTION_DECL", <<"g">>, NoFile, <<>>, <<>>, <<>>, <<>>),
     Node("FUNCTION_DECL", <<"_", "h">>, Here, int, <<>>, <<>>, <<>>),
     Node("STRUCT_DECL", <<"S">>, Here, <<>>, <<>>, <<>>, <<>>),
     Node("STRUCT_DECL", <<>>, Here, <<>>, <<>>,
          <<Child("FIELD_DECL", <<"x">>, int, NoValue)>>, <<>>),
     Node("ENUM_DECL", <<"E">>, Here, <<>>, <<>>, <<>>, <<>>),
     Node("ENUM_DECL", <<>>, Here, <<>>, <<>>,
          <<Child("ENUM_CONSTANT_DECL", <<"A">>, <<>>, Value(0))>>, <<>>),
     Node("MACRO_DEFINITION", <<"M">>, Here, <<>>, <<>>, <<>>, <<<<"M">>>>),
     Node("MACRO_DEFINITION", <<"N">>, NoFile, <<>>, <<>>, <<>>, <<<<"N">>, <<"1">>>>),
     Node("VAR_DECL", <<"v">>, Here, int, <<>>, <<>>, <<>>)}

\* tu.cursor.get_children(): one node of any shape, or up to MaxNodes core nodes
Trees == {<<n>> : n \in AllNodes} \cup SeqsUpTo(CoreNodes, MaxNodes)

\* tu.diagnostics, as the severities of the diagnostics
Diagnostics == {<<>>, <<2, 3>>}

None == [some |-> FALSE, name |-> <<>>]

\* the parsed command line
ArgSet ==
    [header : HeaderPaths,
     clang_path : {None, File(<<"/", "lib">>)},
     out : {None, File(<<"o">>)}]

\* what the process finds around it: whether the header is a file, whether
\* libclang loads, whether the header parses into a translation unit
EnvSet == [isfile : BOOLEAN, lib_ok : BOOLEAN, parse_ok : BOOLEAN]

\* ------------------------------------------------------------------- state

VARIABLES
    pc,         \* where the process is: parse_args, config, process_header,
                \* clang_parse, extract, sections, write, done, exit
    env,        \* the surroundings: see EnvSet
    args,       \* the parsed command line
    tu,         \* the translation unit: its top-level children, once parsed
    idx,        \* how many top-level children the loop of extract_defs has taken
    typedefs, functions, structs, enums, macros,   \* the lists of extract_defs
    output,     \* the summary process_header returns
    stdout,     \* what was printed, in order
    stderr,     \* what was printed to sys.stderr, in order
    outfile,    \* the file named by --out, once written
    exitcode    \* the exit status: -1 while running

vars == <<pc, env, args, tu, idx, typedefs, functions, structs, enums, macros,
          output, stdout, stderr, outfile, exitcode>>

lists == <<typedefs, functions, structs, enums, macros>>

\* one print call: what it is, and the text where the model keeps it
Msg(tag, text) == [tag |-> tag, text |-> text]

Init ==
    /\ pc = "parse_args"
    /\ env \in EnvSet
    /\ args = [header |-> <<>>, clang_path |-> None, out |-> None]
    /\ tu = [some |-> FALSE, children |-> <<>>, diagnostics |-> <<>>]
    /\ idx = 0
    /\ typedefs = <<>> /\ functions = <<>> /\ structs = <<>>
    /\ enums = <<>> /\ macros = <<>>
    /\ output = <<>>
    /\ stdout = <<>> /\ stderr = <<>>
    /\ outfile = [some |-> FALSE, text |-> <<>>]
    /\ exitcode = -1

\* ---------------------------------------------------------------- main

\* args = parse_args()
ParseArgs ==
    /\ pc = "parse_args"
    /\ args' \in ArgSet
    /\ pc' = "config"
    /\ UNCHANGED <<env, tu, idx, lists, output, stdout, stderr, outfile, exitcode>>

\* the first try block: the library file or path is set, nothing is loaded yet
Config ==
    /\ pc = "config"
    /\ pc' = "process_header"
    /\ UNCHANGED <<env, args, tu, idx, lists, output, stdout, stderr, outfile, exitcode>>

\* the first except clause: setting the library path raised LibclangError
ConfigLibclangError ==
    /\ pc = "config"
    /\ args.clang_path.some
    /\ ~env.lib_ok
    /\ stderr' = Append(stderr, Msg("ERROR: Failed to load libclang", <<>>))
    /\ stdout' = Append(stdout, Msg("Try setting --clang-path", <<>>))
    /\ exitcode' = 1
    /\ pc' = "exit"
    /\ UNCHANGED <<env, args, tu, idx, lists, output, outfile>>

\* Handler without the sys.exit(1)
HandlerNoExit(what) ==
    /\ stderr' = Append(stderr, Msg("ERROR", what))
    /\ exitcode' = exitcode
    /\ pc' = "write"

\* except Exception as err: print(f'ERROR: {err}', file=sys.stderr); sys.exit(1)
Handler(what) ==
    /\ stderr' = Append(stderr, Msg("ERROR", what))
    /\ exitcode' = 1
    /\ pc' = "exit"

\* process_header: the header is no file; sys.exit(1) raises SystemExit, which
\* `except Exception' does not catch
HeaderNotFound ==
    /\ pc = "process_header"
    /\ ~env.isfile
    /\ stderr' = Append(stderr, Msg("ERROR: File not found", <<>>))
    /\ exitcode' = 1
    /\ pc' = "exit"
    /\ UNCHANGED <<env, args, tu, idx, lists, output, stdout, outfile>>

\* process_header: the header is a file
HeaderFound ==
    /\ pc = "process_header"
    /\ env.isfile
    /\ pc' = "clang_parse"
    /\ UNCHANGED <<env, args, tu, idx, lists, output, stdout, stderr, outfile, exitcode>>

\* clang_parse: Index.create() loads libclang and raises LibclangError
ClangLoadError ==
    /\ pc = "clang_parse"
    /\ ~env.lib_ok
    /\ Handler(<<"l", "i", "b">>)
    /\ UNCHANGED <<env, args, tu, idx, lists, output, stdout, outfile>>

\* clang_parse: index.parse raises TranslationUnitLoadError
ClangParseError ==
    /\ pc = "clang_parse"
    /\ env.lib_ok /\ ~env.parse_ok
    /\ Handler(<<"t", "u">>)
    /\ UNCHANGED <<env, args, tu, idx, lists, output, stdout, outfile>>

\* print_diagnostics: the header, one line per diagnostic, the footer; the
\* lines of severity 3 and more go to sys.stderr
RECURSIVE DiagLines(_, _)
DiagLines(diagnostics, severe) ==
    IF diagnostics = <<>> THEN <<>>
    ELSE (IF (diagnostics[1] >= 3) = severe
          THEN <<Msg("diagnostic", <<>>)>> ELSE <<>>)
         \o DiagLines(Tail(diagnostics), severe)

\* clang_parse returns a translation unit (an object, never falsy, so
\* print_diagnostics does not return early), its diagnostics are printed, and
\* extract_defs starts with its five lists empty
ClangParse ==
    /\ pc = "clang_parse"
    /\ env.lib_ok /\ env.parse_ok
    /\ \E children \in Trees, diagnostics \in Diagnostics :
        /\ tu' = [some |-> TRUE, children |-> children, diagnostics |-> diagnostics]
        /\ stdout' = stdout \o <<Msg("Diagnostics:", <<>>)>>
                        \o DiagLines(diagnostics, FALSE) \o <<Msg("---", <<>>)>>
        /\ stderr' = stderr \o DiagLines(diagnostics, TRUE)
    /\ idx' = 0
    /\ typedefs' = <<>> /\ functions' = <<>> /\ structs' = <<>>
    /\ enums' = <<>> /\ macros' = <<>>
    /\ pc' = "extract"
    /\ UNCHANGED <<env, args, output, outfile, exitcode>>

\* -------------------------------------------------------- extract_defs

\* the node the for loop takes next
CurNode == tu.children[idx + 1]

\* the loop has a node left
InLoop == pc = "extract" /\ idx < Len(tu.children)

\* the node is not skipped for its origin and is of the given kind
Visit(kind) ==
    /\ InLoop
    /\ ~OtherOrigin(CurNode, args.header)
    /\ CurNode.kind = kind

\* what an iteration leaves alone, besides the five lists
LoopFrame == UNCHANGED <<pc, env, args, tu, output, stdout, stderr, outfile, exitcode>>

\* the node comes from another file: continue
ExtractSkip ==
    /\ InLoop
    /\ OtherOrigin(CurNode, args.header)
    /\ idx' = idx + 1
    /\ UNCHANGED lists
    /\ LoopFrame

\* ExtractTypedef inserting at the front of the list
ExtractTypedefPrepend ==
    /\ Visit("TYPEDEF_DECL")
    /\ typedefs' = IF TypedefEmits(CurNode)
                   THEN <<TypedefText(CurNode)>> \o typedefs
                   ELSE typedefs
    /\ idx' = idx + 1
    /\ UNCHANGED <<functions, structs, enums, macros>>
    /\ LoopFrame

\* CursorKind.TYPEDEF_DECL
ExtractTypedef ==
    /\ Visit("TYPEDEF_DECL")
    /\ typedefs' = IF TypedefEmits(CurNode)
                   THEN Append(typedefs, TypedefText(CurNode))
                   ELSE typedefs
    /\ idx' = idx + 1
    /\ UNCHANGED <<functions, structs, enums, macros>>
    /\ LoopFrame

\* CursorKind.FUNCTION_DECL
ExtractFunction ==
    /\ Visit("FUNCTION_DECL")
    /\ functions' = IF NameEmits(CurNode)
                    THEN Append(functions, FunctionText(CurNode))
                    ELSE functions
    /\ idx' = idx + 1
    /\ UNCHANGED <<typedefs, structs, enums, macros>>
    /\ LoopFrame

\* CursorKind.STRUCT_DECL
ExtractStruct ==
    /\ Visit("STRUCT_DECL")
    /\ structs' = IF NameEmits(CurNode)
                  THEN Append(structs, StructText(CurNode))
                  ELSE structs
    /\ idx' = idx + 1
    /\ UNCHANGED <<typedefs, functions, enums, macros>>
    /\ LoopFrame

\* CursorKind.ENUM_DECL
ExtractEnum ==
    /\ Visit("ENUM_DECL")
    /\ enums' = IF NameEmits(CurNode)
                THEN Append(enums, EnumText(CurNode))
                ELSE enums
    /\ idx' = idx + 1
    /\ UNCHANGED <<typedefs, functions, structs, macros>>
    /\ LoopFrame

\* CursorKind.MACRO_DEFINITION
ExtractMacro ==
    /\ Visit("MACRO_DEFINITION")
    /\ macros' = IF NameEmits(CurNode)
                 THEN Append(macros, MacroText(CurNode))
                 ELSE macros
    /\ idx' = idx + 1
    /\ UNCHANGED <<typedefs, functions, structs, enums>>
    /\ LoopFrame

\* the kinds the if/elif chain handles
Handled == {"TYPEDEF_DECL", "FUNCTION_DECL", "STRUCT_DECL", "ENUM_DECL",
            "MACRO_DEFINITION"}

\* any other kind: no branch of the chain is taken
ExtractOther ==
    /\ InLoop
    /\ ~OtherOrigin(CurNode, args.header)
    /\ CurNode.kind \notin Handled
    /\ idx' = idx + 1
    /\ UNCHANGED lists
    /\ LoopFrame

\* an accessor of the node raises inside the loop; main's second except
\* clause takes it
ExtractError ==
    /\ InLoop
    /\ Handler(<<"n", "o", "d", "e">>)
    /\ UNCHANGED <<env, args, tu, idx, lists, output, stdout, outfile>>

\* -------------------------------------------------- process_header, main

\* one section of the summary: its title line, its items, the closing line
Section(title, items) ==
    <<title \o <<":", "\n", "-", "-", "-">>>> \o items \o <<<<"-", "-", "-", "\n">>>>

\* the loop is over; process_header builds the summary from the five lists
Sections ==
    /\ pc = "extract"
    /\ idx = Len(tu.children)
    /\ output' = Join(<<"\n">>,
            Section(<<"T", "y", "p", "e", "d", "e", "f", "s">>, typedefs)
         \o Section(<<"F", "u", "n", "c", "t", "i", "o", "n", "s">>, functions)
         \o Section(<<"S", "t", "r", "u", "c", "t", "s">>, structs)
         \o Section(<<"E", "n", "u", "m", "s">>, enums)
         \o Section(<<"M", "a", "c", "r", "o", "s">>, macros))
    /\ pc' = "write"
    /\ UNCHANGED <<env, args, tu, idx, lists, stdout, stderr, outfile, exitcode>>

\* args.out is given: the summary is written to the file
WriteOut ==
    /\ pc = "write"
    /\ args.out.some
    /\ outfile' = [some |-> TRUE, text |-> output]
    /\ exitcode' = 0
    /\ pc' = "done"
    /\ UNCHANGED <<env, args, tu, idx, lists, output, stdout, stderr>>

\* args.out is given and open() raises: nothing catches it, the interpreter
\* prints the traceback and exits with status 1
WriteOutError ==
    /\ pc = "write"
    /\ args.out.some
    /\ stderr' = Append(stderr, Msg("Traceback", <<>>))
    /\ exitcode' = 1
    /\ pc' = "exit"
    /\ UNCHANGED <<env, args, tu, idx, lists, output, stdout, outfile>>

\* no args.out: print(output)
PrintOut ==
    /\ pc = "write"
    /\ ~args.out.some
    /\ stdout' = Append(stdout, Msg("summary", output))
    /\ exitcode' = 0
    /\ pc' = "done"
    /\ UNCHANGED <<env, args, tu, idx, lists, output, stderr, outfile>>

Next ==
    \/ ParseArgs
    \/ Config
    \/ ConfigLibclangError
    \/ HeaderNotFound
    \/ HeaderFound
    \/ ClangLoadError
    \/ ClangParseError
    \/ ClangParse
    \/ ExtractSkip
    \/ ExtractTypedef
    \/ ExtractFunction
    \/ ExtractStruct
    \/ ExtractEnum
    \/ ExtractMacro
    \/ ExtractOther
    \/ ExtractError
    \/ Sections
    \/ WriteOut
    \/ WriteOutError
    \/ PrintOut

Spec == Init /\ [][Next]_vars

\* ------------------------------------------------------------- properties

\* one iteration of the loop of extract_defs is taken
Step == InLoop /\ idx' = idx + 1

\* the node named by a claim passes the origin rule: no originating file, or
\* one with the canonical path of the header
SameOrigin(n) == ~n.file.some \/ abspath(n.file.name) = abspath(args.header)

\* the five lists after a node is handled by its kind alone, whatever its origin
ByKind(n) ==
    <<IF n.kind = "TYPEDEF_DECL" /\ TypedefEmits(n)
      THEN Append(typedefs, TypedefText(n)) ELSE typedefs,
      IF n.kind = "FUNCTION_DECL" /\ NameEmits(n)
      THEN Append(functions, FunctionText(n)) ELSE functions,
      IF n.kind = "STRUCT_DECL" /\ NameEmits(n)
      THEN Append(structs, StructText(n)) ELSE structs,
      IF n.kind = "ENUM_DECL" /\ NameEmits(n)
      THEN Append(enums, EnumText(n)) ELSE enums,
      IF n.kind = "MACRO_DEFINITION" /\ NameEmits(n)
      THEN Append(macros, MacroText(n)) ELSE macros>>

\* C1: a top-level node whose originating file is present and has another
\* canonical path than the header adds no entry to any list; a node with no
\* originating file, like a node of the header itself, is handled by its kind
C1_OriginFilter ==
    [][Step =>
        LET n == CurNode IN
        /\ (n.file.some /\ abspath(n.file.name) # abspath(args.header))
              => UNCHANGED lists
        /\ ~n.file.some => lists' = ByKind(n)
        /\ (n.file.some /\ abspath(n.file.name) = abspath(args.header))
              => lists' = ByKind(n)]_vars

\* C1 witness: a node of another file was skipped, then a node with no file
\* was emitted
C1_Witness ==
    /\ pc = "extract" /\ idx = 2
    /\ tu.children[1].file.some
    /\ abspath(tu.children[1].file.name) # abspath(args.header)
    /\ tu.children[1].kind = "TYPEDEF_DECL"
    /\ ~tu.children[2].file.some
    /\ tu.children[2].kind = "TYPEDEF_DECL"
    /\ Len(typedefs) = 1

\* C2: a typedef, function, struct, enum or macro node whose name starts with
\* `_' adds no entry to any list, whatever its origin, types, children, tokens
C2_PrivateNames ==
    [][(Step /\ CurNode.kind \in Handled /\ CurNode.spelling # <<>>
             /\ CurNode.spelling[1] = "_")
        => UNCHANGED lists]_vars

\* C2 witness: a private struct with fields, of no other file, was passed over
C2_Witness ==
    /\ pc = "extract" /\ idx = 1
    /\ tu.children[1].kind = "STRUCT_DECL"
    /\ tu.children[1].spelling = <<"_", "S">>
    /\ ~tu.children[1].file.some
    /\ Len(tu.children[1].children) = MaxChildren
    /\ structs = <<>>

\* C3 as claimed: a typedef, function, struct, enum or macro node whose name
\* is empty adds no entry to any list
C3_EmptyNamesExcluded ==
    [][(Step /\ CurNode.kind \in Handled /\ CurNode.spelling = <<>>)
        => UNCHANGED lists]_vars

\* C3 amended: only a leading `_' excludes a node by its name; a typedef (of
\* no struct type), function, struct or enum node with the empty name that
\* passes the origin rule adds one entry, with nothing in the name's place
C3_EmptyNamesEmitted ==
    [][(Step /\ CurNode.spelling = <<>> /\ SameOrigin(CurNode)) =>
        LET n == CurNode IN
        /\ (n.kind = "TYPEDEF_DECL"
                /\ ~StartsWith(n.type, <<"s", "t", "r", "u", "c", "t", " ">>))
              => /\ Len(typedefs') = Len(typedefs) + 1
                 /\ typedefs'[Len(typedefs')] =
                      <<"t", "y", "p", "e", "d", "e", "f", " ">>
                          \o (IF n.type = <<>> THEN none ELSE n.type) \o <<" ", ";">>
        /\ n.kind = "FUNCTION_DECL"
              => /\ Len(functions') = Len(functions) + 1
                 /\ StartsWith(functions'[Len(functions')],
                        (IF n.type = <<>> THEN none ELSE n.type) \o <<" ", "(">>)
        /\ n.kind = "STRUCT_DECL"
              => /\ Len(structs') = Len(structs) + 1
                 /\ StartsWith(structs'[Len(structs')],
                        <<"s", "t", "r", "u", "c", "t", " ", " ", "{", "\n">>)
        /\ n.kind = "ENUM_DECL"
              => /\ Len(enums') = Len(enums) + 1
                 /\ StartsWith(enums'[Len(enums')], <<" ", "{", "\n">>)]_vars

\* C3 witness: an unnamed struct of the header was emitted as `struct  {'
C3_Witness ==
    /\ pc = "extract" /\ idx = 1
    /\ tu.children[1].kind = "STRUCT_DECL"
    /\ tu.children[1].spelling = <<>>
    /\ Len(structs) = 1
    /\ StartsWith(structs[1], <<"s", "t", "r", "u", "c", "t", " ", " ", "{">>)

\* the entries the nodes of `nodes', taken in their order, give for one kind
RECURSIVE Collected(_, _)
Collected(kind, nodes) ==
    IF nodes = <<>> THEN <<>>
    ELSE LET n == nodes[Len(nodes)]
             text == CASE kind = "TYPEDEF_DECL" -> TypedefText(n)
                       [] kind = "FUNCTION_DECL" -> FunctionText(n)
                       [] kind = "STRUCT_DECL" -> StructText(n)
                       [] kind = "ENUM_DECL" -> EnumText(n)
                       [] kind = "MACRO_DEFINITION" -> MacroText(n)
             emits == /\ n.kind = kind
                      /\ SameOrigin(n)
                      /\ IF kind = "TYPEDEF_DECL" THEN TypedefEmits(n) ELSE NameEmits(n)
         IN  Collected(kind, SubSeq(nodes, 1, Len(nodes) - 1))
                \o (IF emits THEN <<text>> ELSE <<>>)

\* C4: after any number of top-level nodes, each list holds the entries of
\* the nodes taken so far that pass the filters, in the order of those nodes
\* among the root's children
C4_OrderPreserved ==
    tu.some =>
        LET taken == SubSeq(tu.children, 1, idx) IN
        /\ typedefs = Collected("TYPEDEF_DECL", taken)
        /\ functions = Collected("FUNCTION_DECL", taken)
        /\ structs = Collected("STRUCT_DECL", taken)
        /\ enums = Collected("ENUM_DECL", taken)
        /\ macros = Collected("MACRO_DEFINITION", taken)

\* C4 witness: two typedefs with different entries were both emitted
C4_Witness ==
    /\ pc = "extract" /\ idx = 2
    /\ tu.children[1].kind = "TYPEDEF_DECL"
    /\ tu.children[2].kind = "TYPEDEF_DECL"
    /\ tu.children[1] # tu.children[2]
    /\ Len(typedefs) = 2
    /\ typedefs[1] # typedefs[2]
    /\ typedefs[1] = TypedefText(tu.children[1])

\* a spelling as the output shows it: the literal `none' for an empty one
Shown(spelling) == IF Len(spelling) = 0 THEN <<"n", "o", "n", "e">> ELSE spelling

\* the lines of a block, each but the last followed by a newline
RECURSIVE Lines(_)
Lines(ls) ==
    IF Len(ls) = 0 THEN <<>>
    ELSE IF Len(ls) = 1 THEN ls[1]
    ELSE ls[1] \o <<"\n">> \o Lines(Tail(ls))

\* the node passes the origin rule and its name does not start with `_'
PassesFilters(n) ==
    SameOrigin(n) /\ ~(Len(n.spelling) > 0 /\ n.spelling[1] = "_")

\* C5: a typedef node that passes the filters adds no entry when its
\* underlying type spelling begins with `struct ', and otherwise exactly
\* `typedef <underlying> <name>;', with `none' for an empty underlying spelling
C5_Typedef ==
    [][(Step /\ CurNode.kind = "TYPEDEF_DECL" /\ PassesFilters(CurNode)) =>
        LET n == CurNode IN
        IF Len(n.type) >= 7 /\ SubSeq(n.type, 1, 7) = <<"s", "t", "r", "u", "c", "t", " ">>
        THEN typedefs' = typedefs
        ELSE typedefs' = typedefs \o
                <<<<"t", "y", "p", "e", "d", "e", "f", " ">> \o Shown(n.type)
                    \o <<" ">> \o n.spelling \o <<";">>>>]_vars

\* C5 witness: a typedef with an empty underlying spelling was emitted with
\* `none'
C5_Witness ==
    /\ pc = "extract" /\ idx = 1
    /\ tu.children[1].kind = "TYPEDEF_DECL"
    /\ tu.children[1].type = <<>>
    /\ tu.children[1].spelling = <<"a", "_">>
    /\ typedefs = <<<<"t", "y", "p", "e", "d", "e", "f", " ", "n", "o", "n", "e",
                      " ", "a", "_", ";">>>>

\* the field lines a struct's children give, by the claim's wording
FieldLines(children) ==
    LET fields == SelectSeq(children, LAMBDA c : c.kind = "FIELD_DECL")
    IN  [i \in 1..Len(fields) |->
            <<" ", " ", " ", " ">> \o Shown(fields[i].type) \o <<" ">>
                \o Shown(fields[i].spelling) \o <<";">>]

\* C6: a struct node that passes the filters adds the block `struct <name> {',
\* one line `    <type> <name>;' per FIELD child in the children's order
\* (whatever the field's name or file, `none' for an empty type or name),
\* then `};'
C6_Struct ==
    [][(Step /\ CurNode.kind = "STRUCT_DECL" /\ PassesFilters(CurNode)) =>
        LET n == CurNode IN
        structs' = structs \o
            <<Lines(<<<<"s", "t", "r", "u", "c", "t", " ">> \o n.spelling \o <<" ", "{">>>>
                    \o FieldLines(n.children)
                    \o <<<<"}", ";">>>>)>>]_vars

\* C6 witness: a struct with a private field and a child that is no field
\* was emitted with the one field line
C6_Witness ==
    /\ pc = "extract" /\ idx = 1
    /\ tu.children[1].kind = "STRUCT_DECL"
    /\ Len(tu.children[1].children) = 2
    /\ tu.children[1].children[1].kind = "UNION_DECL"
    /\ tu.children[1].children[2].spelling = <<"_", "y">>
    /\ tu.children[1].children[2].file.name # tu.children[1].file.name
    /\ structs = <<<<"s", "t", "r", "u", "c", "t", " ", "S", " ", "{", "\n",
                     " ", " ", " ", " ", "i", "n", "t", " ", "_", "y", ";", "\n",
                     "}", ";">>>>

\* the decimal digits of a non-negative integer, by repeated division
RECURSIVE Digits(_)
Digits(n) ==
    (IF n >= 10 THEN Digits(n \div 10) ELSE <<>>)
        \o <<CASE n % 10 = 0 -> "0" [] n % 10 = 1 -> "1" [] n % 10 = 2 -> "2"
               [] n % 10 = 3 -> "3" [] n % 10 = 4 -> "4" [] n % 10 = 5 -> "5"
               [] n % 10 = 6 -> "6" [] n % 10 = 7 -> "7" [] n % 10 = 8 -> "8"
               [] n % 10 = 9 -> "9">>

\* the constant lines an enum's children give, by the claim's wording: every
\* line but the last ends in a comma
ConstantLines(children) ==
    LET consts == SelectSeq(children, LAMBDA c : c.kind = "ENUM_CONSTANT_DECL")
    IN  [i \in 1..Len(consts) |->
            <<" ", " ", " ", " ">> \o consts[i].spelling
                \o (IF consts[i].enum_value.some
                    THEN <<" ", "=", " ">>
                           \o (IF consts[i].enum_value.v < 0
                               THEN <<"-">> \o Digits(0 - consts[i].enum_value.v)
                               ELSE Digits(consts[i].enum_value.v))
                    ELSE <<>>)
                \o (IF i < Len(consts) THEN <<",">> ELSE <<>>)]

\* C7: an enum node that passes the filters adds the block `<name> {', one
\* line per ENUM_CONSTANT child in the children's order, `    <name> = <value>'
\* with a value and `    <name>' without, each but the last ending in `,',
\* then `};' on its own line; an enum with no constant gives `<name> {' and `};'
C7_Enum ==
    [][(Step /\ CurNode.kind = "ENUM_DECL" /\ PassesFilters(CurNode)) =>
        LET n == CurNode IN
        enums' = enums \o
            <<Lines(<<n.spelling \o <<" ", "{">>>>
                    \o ConstantLines(n.children)
                    \o <<<<"}", ";">>>>)>>]_vars

\* C7 witness: a constant without a value after one with the value 5 was
\* emitted bare, and last without a comma
C7_Witness ==
    /\ pc = "extract" /\ idx = 1
    /\ tu.children[1].kind = "ENUM_DECL"
    /\ Len(tu.children[1].children) = 2
    /\ tu.children[1].children[1].enum_value = Value(5)
    /\ ~tu.children[1].children[2].enum_value.some
    /\ enums = <<<<"E", " ", "{", "\n",
                   " ", " ", " ", " ", "A", " ", "=", " ", "5", ",", "\n",
                   " ", " ", " ", " ", "_", "B", "\n",
                   "}", ";">>>>

\* the spellings of `tokens' from the i-th on, a space before each
RECURSIVE Spaced(_, _)
Spaced(tokens, i) ==
    IF i > Len(tokens) THEN <<>>
    ELSE <<" ">> \o tokens[i] \o Spaced(tokens, i + 1)

\* C8: a macro node that passes the filters and has tokens adds `#define',
\* a space, the first token's spelling, and then each further token's
\* spelling after a single space: `#define <name>' alone for a single token
C8_Macro ==
    [][(Step /\ CurNode.kind = "MACRO_DEFINITION" /\ PassesFilters(CurNode)
             /\ Len(CurNode.tokens) >= 1) =>
        LET tokens == CurNode.tokens IN
        macros' = macros \o
            <<<<"#", "d", "e", "f", "i", "n", "e", " ">> \o tokens[1]
                \o Spaced(tokens, 2)>>]_vars

\* C8 witness: a macro of a single token was emitted with no trailing space
C8_Witness ==
    /\ pc = "extract" /\ idx = 1
    /\ tu.children[1].kind = "MACRO_DEFINITION"
    /\ Len(tu.children[1].tokens) = 1
    /\ macros = <<<<"#", "d", "e", "f", "i", "n", "e", " ", "M">>>>

\* the parameters of a function from the i-th on, `, ' between them
RECURSIVE ParamsFrom(_, _)
ParamsFrom(arguments, i) ==
    IF i > Len(arguments) THEN <<>>
    ELSE (IF i > 1 THEN <<",", " ">> ELSE <<>>)
            \o Shown(arguments[i].type) \o <<" ">> \o Shown(arguments[i].spelling)
            \o ParamsFrom(arguments, i + 1)

\* C9: a function node that passes the filters adds `<return_type>
\* <name>(<params>);', the parameters in their order as `<type> <name>' joined
\* by `, ', `none' for an empty return type, parameter type or parameter name,
\* and `()' for no parameter
C9_Function ==
    [][(Step /\ CurNode.kind = "FUNCTION_DECL" /\ PassesFilters(CurNode)) =>
        LET n == CurNode IN
        functions' = functions \o
            <<Shown(n.type) \o <<" ">> \o n.spelling \o <<"(">>
                \o ParamsFrom(n.args, 1) \o <<")", ";">>>>]_vars

\* C9 witness: a function of two parameters, one unnamed and untyped, was
\* emitted
C9_Witness ==
    /\ pc = "extract" /\ idx = 1
    /\ tu.children[1].kind = "FUNCTION_DECL"
    /\ functions = <<<<"i", "n", "t", " ", "f", "(", "i", "n", "t", " ", "x", ",", " ",
                       "n", "o", "n", "e", " ", "n", "o", "n", "e", ")", ";">>>>

\* the summary was printed
SummaryPrinted == \E i \in 1..Len(stdout) : stdout[i].tag = "summary"

\* where the process is once it has parsed or extracted, or has finished well
AfterParse == {"extract", "sections", "write", "done"}

\* C10: with no header file the process never parses or extracts; with a
\* library that does not load or a header that does not parse it never gets
\* to extract; and every failed run (the three above, and an error raised
\* while extracting) has reported on the error stream, exits non-zero, and
\* has neither printed the summary nor written the output file
C10_Failures ==
    /\ ~env.isfile => (~tu.some /\ pc \notin AfterParse /\ pc # "clang_parse")
    /\ (~env.lib_ok \/ ~env.parse_ok) => (~tu.some /\ pc \notin AfterParse)
    /\ pc = "exit" =>
        /\ exitcode # 0
        /\ Len(stderr) > 0
        /\ stderr[Len(stderr)].tag \in
              {"ERROR", "ERROR: File not found", "ERROR: Failed to load libclang",
               "Traceback"}
        /\ ~SummaryPrinted
        /\ ~outfile.some
    /\ pc # "exit" => exitcode < 1
    /\ (~env.isfile /\ pc \notin {"parse_args", "config", "process_header"})
          => (pc = "exit" /\ stderr[Len(stderr)].tag \in
                 {"ERROR: File not found", "ERROR: Failed to load libclang"})

\* C10 witness: an error raised while extracting the second node ended the
\* run with status 1 after diagnostics were printed
C10_Witness ==
    /\ pc = "exit" /\ exitcode = 1
    /\ tu.some /\ idx = 1 /\ Len(tu.children) = 2
    /\ stderr[Len(stderr)] = Msg("ERROR", <<"n", "o", "d", "e">>)
    /\ Len(stdout) > 2
    /\ ~outfile.some

====
